---- MODULE Spec2Model ----
(***************************************************************************)
(* A model of app.py: the Streamlit stock analyser.                        *)
(*                                                                         *)
(*   get_stock_data        the historical query and its (data, error) pair *)
(*   plot_stock_chart      the candlestick figure and the MA50 / MA200     *)
(*                         columns it writes into the frame it is given    *)
(*   format_large_number   the tiered currency formatter                   *)
(*   the script body       one run of the page, st.* call by st.* call     *)
(*                                                                         *)
(* Python values are tagged records.  A number is a sign, the decimal      *)
(* digits of its integer part and the decimal digits of its fraction, so   *)
(* that 10^12 and beyond are exact (ints are unbounded in Python) and the  *)
(* strings the f-strings build are the strings the program shows.          *)
(***************************************************************************)
EXTENDS Integers, Sequences, FiniteSets, TLC

VARIABLES
    num,        \* format_large_number: the argument of the call
    ret,        \* format_large_number: how the call ended
    data,       \* the frame get_stock_data returned / plot_stock_chart is given
    fig,        \* the figure plot_stock_chart returned
    window,     \* rolling(window=...): the window of the last rolling mean
    rolled,     \* rolling(window=...).mean(): the column it produced
    pc,         \* the script: the statement the run has reached
    clicked,    \* st.sidebar.button('Analyze Stock')
    ticker_symbol,  \* st.sidebar.text_input(...).upper()
    download,   \* what yf.download did: the frame it returned or what it raised
    error,      \* the second component of get_stock_data's pair
    stock_info, \* what yf.Ticker(ticker_symbol).info did
    caught,     \* the exception the company-information try block caught
    log         \* the run so far: provider calls and st.* elements, in order

fmtVars == <<num, ret>>
maVars == <<data, fig, window, rolled>>
appVars == <<pc, clicked, ticker_symbol, download, error, stock_info, caught, log>>
vars == <<num, ret, data, fig, window, rolled,
          pc, clicked, ticker_symbol, download, error, stock_info, caught, log>>

(***************************************************************************)
(* Python values                                                           *)
(***************************************************************************)
PyNone == [kind |-> "None"]
PyStr(s) == [kind |-> "str", s |-> s]
PyList == [kind |-> "list"]
PyNum(kind, neg, ip, fp) ==
    [kind |-> kind, special |-> "fin", neg |-> neg, ip |-> ip, fp |-> fp]
PyInt(neg, ip) == PyNum("int", neg, ip, <<>>)
PyFloat(neg, ip, fp) == PyNum("float", neg, ip, fp)
PyBool(b) == PyNum("bool", FALSE, IF b THEN <<1>> ELSE <<0>>, <<>>)
PyNaN == [kind |-> "float", special |-> "nan", neg |-> FALSE, ip |-> <<0>>, fp |-> <<>>]
PyInf(neg) == [kind |-> "float", special |-> "inf", neg |-> neg, ip |-> <<0>>, fp |-> <<>>]

\* The one element of a singleton.  Only({e(x) : x \in {v}}) is e with x
\* bound to the value of v, computed once.
Only(S) == CHOOSE x \in S : TRUE

\* How an expression or a call ends: with a value or by raising.
Value(v) == [exc |-> "", msg |-> "", v |-> v]
Raise(e, msg) == [exc |-> e, msg |-> msg, v |-> PyNone]

\* The variables of a part of the program that a specification leaves alone.
FmtIdle == num = PyNone /\ ret = [exc |-> "", msg |-> "", v |-> "", line |-> 0]
MaIdle == data = PyNone /\ fig = PyNone /\ window = 0 /\ rolled = <<>>
AppIdle ==
    /\ pc = "idle"
    /\ clicked = FALSE
    /\ ticker_symbol = ""
    /\ download = PyNone
    /\ error = PyNone
    /\ stock_info = PyNone
    /\ caught = PyNone
    /\ log = <<>>

(***************************************************************************)
(* Decimal digit strings                                                   *)
(***************************************************************************)
RECURSIVE Digits(_)
Digits(n) == IF n < 10 THEN <<n>> ELSE Digits(n \div 10) \o <<n % 10>>

Zeros(k) == [i \in 1..k |-> 0]

RECURSIVE Normalize(_)
Normalize(ds) ==
    IF Len(ds) > 1 /\ Head(ds) = 0 THEN Normalize(Tail(ds)) ELSE ds

Pow10(k) == <<1>> \o Zeros(k)

\* hi * 10^6 + lo, for 0 <= lo < 10^6: the way the literals wider than a
\* machine word are written down.
Wide(hi, lo) ==
    LET l == Digits(lo)
    IN  IF hi = 0 THEN l ELSE Digits(hi) \o Zeros(6 - Len(l)) \o l

DigitChar == <<"0", "1", "2", "3", "4", "5", "6", "7", "8", "9">>

RECURSIVE DigitsStr(_)
DigitsStr(ds) ==
    IF ds = <<>> THEN "" ELSE DigitChar[Head(ds) + 1] \o DigitsStr(Tail(ds))

\* The "," option of the format mini-language: groups of three from the right.
RECURSIVE GroupStr(_)
GroupStr(ds) ==
    IF Len(ds) <= 3 THEN DigitsStr(ds)
    ELSE GroupStr(SubSeq(ds, 1, Len(ds) - 3)) \o ","
            \o DigitsStr(SubSeq(ds, Len(ds) - 2, Len(ds)))

RECURSIVE Incr(_)
Incr(ds) ==
    IF ds = <<>> THEN <<1>>
    ELSE LET front == SubSeq(ds, 1, Len(ds) - 1)
             last == ds[Len(ds)]
         IN  IF last < 9 THEN front \o <<last + 1>> ELSE Incr(front) \o <<0>>

\* a > b for two digit strings of non-negative decimals: integer parts
\* without leading zeros, fractions padded to the same length.
DecGt(aip, afp, bip, bfp) ==
    LET w == IF Len(afp) > Len(bfp) THEN Len(afp) ELSE Len(bfp)
        a == aip \o afp \o Zeros(w - Len(afp))
        b == bip \o bfp \o Zeros(w - Len(bfp))
    IN  IF Len(aip) # Len(bip) THEN Len(aip) > Len(bip)
        ELSE \E i \in 1..Len(a) :
                /\ a[i] > b[i]
                /\ \A j \in 1..(i - 1) : a[j] = b[j]

(***************************************************************************)
(* Floats.  A C double holds every magnitude below 2^1024 - 2^970; an int  *)
(* at or above it does not convert ("int too large to convert to float")   *)
(* and a true division of ints whose quotient reaches it raises            *)
(* OverflowError.                                                          *)
(***************************************************************************)
FloatOverflowThreshold ==
    <<1,7,9,7,6,9,3,1,3,4,8,6,2,3,1,5,8,0,7,9,3,7,2,8,9,7,1,4,0,5,3,0,3,4,1,5,0,7,9,9,3,4,1,3,2,7,1,0,0,3,
      7,8,2,6,9,3,6,1,7,3,7,7,8,9,8,0,4,4,4,9,6,8,2,9,2,7,6,4,7,5,0,9,4,6,6,4,9,0,1,7,9,7,7,5,8,7,2,0,7,0,
      9,6,3,3,0,2,8,6,4,1,6,6,9,2,8,8,7,9,1,0,9,4,6,5,5,5,5,4,7,8,5,1,9,4,0,4,0,2,6,3,0,6,5,7,4,8,8,6,7,1,
      5,0,5,8,2,0,6,8,1,9,0,8,9,0,2,0,0,0,7,0,8,3,8,3,6,7,6,2,7,3,8,5,4,8,4,5,8,1,7,7,1,1,5,3,1,7,6,4,4,7,
      5,7,3,0,2,7,0,0,6,9,8,5,5,5,7,1,3,6,6,9,5,9,6,2,2,8,4,2,9,1,4,8,1,9,8,6,0,8,3,4,9,3,6,4,7,5,2,9,2,7,
      1,9,0,7,4,1,6,8,4,4,4,3,6,5,5,1,0,7,0,4,3,4,2,7,1,1,5,5,9,6,9,9,5,0,8,0,9,3,0,4,2,8,8,0,1,7,7,9,0,4,
      1,7,4,4,9,7,7,9,2>>

FloatOverflows(ip) == ~DecGt(FloatOverflowThreshold, <<>>, ip, <<>>)

(***************************************************************************)
(* The operators format_large_number applies to its argument               *)
(***************************************************************************)
\* isinstance(num, (int, float)); bool is a subclass of int.
IsIntOrFloat(x) == x.kind \in {"int", "float", "bool"}

\* x > 10^k.  Every comparison with NaN is False.
py_ge(x, k) ==
    CASE x.special = "nan" -> FALSE
      [] x.special = "inf" -> ~x.neg
      [] OTHER -> /\ ~x.neg
                  /\ ~DecGt(Pow10(k), <<>>, x.ip, x.fp)

py_gt(x, k) ==
    CASE x.special = "nan" -> FALSE
      [] x.special = "inf" -> ~x.neg
      [] OTHER -> /\ ~x.neg
                  /\ DecGt(x.ip, x.fp, Pow10(k), <<>>)

\* x // 10^k on an int: the quotient without its fraction.
py_floordiv(x, k) ==
    IF Len(x.ip) <= k THEN Value(PyInt(x.neg, <<0>>))
    ELSE Value(PyInt(x.neg, SubSeq(x.ip, 1, Len(x.ip) - k)))

\* x / 10^k, a float: the decimal point moves k places to the left.
py_truediv(x, k) ==
    IF x.special # "fin" THEN Value(x)
    ELSE Only({
            Only({ IF x.kind # "float" /\ FloatOverflows(qip)
                   THEN Raise("OverflowError",
                              "integer division result too large for a float")
                   ELSE Value(PyFloat(x.neg, qip,
                                      SubSeq(all, Len(all) - k + 1, Len(all)) \o x.fp))
                 : qip \in {Normalize(SubSeq(all, 1, Len(all) - k))} })
         : all \in {Zeros(k) \o x.ip} })

\* x * 10^k: the decimal point moves k places to the right; an int (or bool)
\* times an int is an int.
py_mul(x, k) ==
    IF x.special # "fin" THEN x
    ELSE LET f == x.fp \o Zeros(k)
         IN  PyNum(IF x.kind = "float" THEN "float" ELSE "int", x.neg,
                   Normalize(x.ip \o SubSeq(f, 1, k)), SubSeq(f, k + 1, Len(f)))

\* Round half to even: whether the kept digits go up, given the digits cut.
RoundsUp(keep, rest) ==
    /\ rest # <<>>
    /\ rest[1] >= 5
    /\ \/ rest[1] > 5
       \/ \E i \in 2..Len(rest) : rest[i] # 0
       \/ keep[Len(keep)] % 2 = 1

\* format(x, ".2f") and, with comma, format(x, ",.2f"): an int is converted
\* to float first; the digits are rounded to two places, half to even.
py_format_2f(x, comma) ==
    CASE x.kind # "float" /\ FloatOverflows(x.ip) ->
            Raise("OverflowError", "int too large to convert to float")
      [] x.special = "nan" -> Value("nan")
      [] x.special = "inf" -> Value(IF x.neg THEN "-inf" ELSE "inf")
      [] OTHER ->
            Only({
                Only({
                    Value((IF x.neg THEN "-" ELSE "")
                            \o (IF comma THEN GroupStr(SubSeq(kept, 1, Len(kept) - 2))
                                         ELSE DigitsStr(SubSeq(kept, 1, Len(kept) - 2)))
                            \o "." \o DigitsStr(SubSeq(kept, Len(kept) - 1, Len(kept))))
                  : kept \in {IF RoundsUp(x.ip \o SubSeq(f, 1, 2), SubSeq(f, 3, Len(f)))
                              THEN Incr(x.ip \o SubSeq(f, 1, 2))
                              ELSE x.ip \o SubSeq(f, 1, 2)} })
              : f \in {x.fp \o <<0, 0>>} })

TrillionExp == 12
BillionExp == 9
MillionExp == 6

\* f"${num/10^k:.2f}<suffix>": the division, then the format, then the
\* concatenation; whichever raises first ends the f-string.
TierString(x, k, suffix) ==
    Only({ IF q.exc # "" THEN q
           ELSE Only({ IF s.exc # "" THEN s ELSE Value("$" \o s.v \o suffix)
                     : s \in {py_format_2f(q.v, FALSE)} })
         : q \in {py_truediv(x, k)} })

PlainString(x) ==
    Only({ IF s.exc # "" THEN s ELSE Value("$" \o s.v)
         : s \in {py_format_2f(x, TRUE)} })

\* The call's outcome and the line of the statement that ended it.
At(line, outcome) ==
    Only({ [exc |-> o.exc, msg |-> o.msg,
            v |-> IF o.exc # "" THEN "" ELSE o.v, line |-> line]
         : o \in {outcome} })

format_large_number(x) ==
    IF x.kind = "None" \/ ~IsIntOrFloat(x) THEN At(70, Value("N/A"))
    ELSE IF py_gt(x, TrillionExp) THEN At(72, TierString(x, TrillionExp, " T"))
    ELSE IF py_gt(x, BillionExp) THEN At(74, TierString(x, BillionExp, " B"))
    ELSE IF py_gt(x, MillionExp) THEN At(76, TierString(x, MillionExp, " M"))
    ELSE At(77, PlainString(x))

Pending == [exc |-> "", msg |-> "", v |-> "", line |-> 0]

(***************************************************************************)
(* format_large_number, called on each kind of argument                    *)
(***************************************************************************)
MaxDelta == 2

\* The 322-digit int 10^321 and the like: ints no double can hold.
HugeDigits == {Pow10(321), Pow10(400), FloatOverflowThreshold \o Zeros(12)}

IntDigits ==
    {Digits(n) : n \in {0, 1, 999, 1000, 123456}}
        \cup {Wide(hi, d) : hi \in {1, 1000, 1000000}, d \in 0..MaxDelta}
        \cup {Wide(hi - 1, 1000000 - d) : hi \in {1, 1000, 1000000}, d \in 1..MaxDelta}
        \cup {Wide(1, 125000), Wide(1, 500000), Wide(1234, 567890),
              Wide(1500000, 0), Wide(12345678, 901234)}

FormatInputs ==
    {PyNone, PyStr("abc"), PyStr(""), PyStr("1000000"), PyList,
     PyBool(TRUE), PyBool(FALSE), PyNaN, PyInf(FALSE), PyInf(TRUE)}
        \cup {PyInt(neg, ds) : neg \in BOOLEAN, ds \in (IntDigits \ {<<0>>}) \cup HugeDigits}
        \cup {PyInt(FALSE, <<0>>)}
        \cup {PyFloat(neg, ds, fp) : neg \in BOOLEAN,
                                     ds \in {<<0>>, Digits(999), Digits(1234), Wide(1, 0),
                                             Wide(1000, 0), Wide(1000000, 0)},
                                     fp \in {<<>>, <<5>>, <<1, 2, 5>>, <<3, 7, 5>>, <<9, 9, 6>>}}

FmtInit ==
    /\ num \in FormatInputs
    /\ ret = Pending
    /\ MaIdle
    /\ AppIdle

CallFormat ==
    /\ ret = Pending
    /\ ret' = format_large_number(num)
    /\ UNCHANGED <<num, maVars, appVars>>

FmtNext == CallFormat

SpecFmt == FmtInit /\ [][FmtNext]_vars

(***************************************************************************)
(* Frames and the rolling mean                                             *)
(***************************************************************************)
DataFrame(cols) == [kind |-> "DataFrame", cols |-> cols]

OHLCV == {"Open", "High", "Low", "Close", "Volume"}

\* len(df): the rows of a frame; a frame without columns has none.
Rows(df) ==
    IF DOMAIN df.cols = {} THEN 0
    ELSE Len(df.cols[CHOOSE c \in DOMAIN df.cols : TRUE])

\* df.empty: some axis has length 0.
Empty(df) == DOMAIN df.cols = {} \/ Rows(df) = 0

\* df[name] = column
SetColumn(df, name, column) == DataFrame((name :> column) @@ df.cols)

RECURSIVE SumRange(_, _, _)
SumRange(s, lo, hi) ==
    IF lo > hi THEN 0
    ELSE IF lo = hi THEN s[lo]
    ELSE LET mid == (lo + hi) \div 2
         IN  SumRange(s, lo, mid) + SumRange(s, mid + 1, hi)

NaN == [nan |-> TRUE, sum |-> 0, nobs |-> 1]
Mean(sum, nobs) == [nan |-> FALSE, sum |-> sum, nobs |-> nobs]

\* Series.rolling(window=w, min_periods=minp).mean(): the window slides over
\* the series, each value entering its sum once and leaving it w positions
\* later; a position with fewer than minp observations is NaN.  The mean is
\* kept as the pair (sum, nobs), the exact quotient.
RollingMean(close, w, minp) ==
    [i \in 1..Len(close) |->
        LET nobs == IF i < w THEN i ELSE w
            entered == SumRange(close, 1, i)
            left == SumRange(close, 1, i - w)
        IN  IF nobs >= minp THEN Mean(entered - left, nobs) ELSE NaN]

\* min_periods=1: a value at every position.
rolling_mean_min1(close, w) == RollingMean(close, w, 1)

\* .rolling(window=w).mean(): min_periods defaults to the window.
rolling_mean(close, w) == RollingMean(close, w, w)

MA50Window == 50
MA200Window == 200

Candlestick(df) ==
    [type |-> "Candlestick", name |-> "Candlestick",
     y |-> <<df.cols["Open"], df.cols["High"], df.cols["Low"], df.cols["Close"]>>]
Scatter(name, y) == [type |-> "Scatter", name |-> name, y |-> <<y>>]

\* plot_stock_chart(data, ticker): the figure it returns and the frame it
\* leaves behind.  data['MA50'] = ... and data['MA200'] = ... assign into the
\* frame object the caller passed.
plot_stock_chart(df, ticker) ==
    Only({
        Only({ [fig |-> [traces |-> <<Candlestick(df),
                                      Scatter("50-Day Moving Average", df1.cols["MA50"]),
                                      Scatter("200-Day Moving Average", df2.cols["MA200"])>>,
                         title |-> ticker \o " Stock Analysis"],
                data |-> df2]
             : df2 \in {SetColumn(df1, "MA200",
                                  rolling_mean(df1.cols["Close"], MA200Window))} })
      : df1 \in {SetColumn(df, "MA50", rolling_mean(df.cols["Close"], MA50Window))} })

\* A provider frame over a close series.  The other columns are the
\* provider's; nothing in the program reads their values but the chart and
\* the table that show them.
Frame(close) ==
    DataFrame([c \in OHLCV |->
        CASE c = "Close" -> close
          [] c = "Open" -> close
          [] c = "High" -> [i \in 1..Len(close) |-> close[i] + 1]
          [] c = "Low" -> [i \in 1..Len(close) |-> close[i] - 1]
          [] OTHER -> [i \in 1..Len(close) |-> 1000]])

(***************************************************************************)
(* The rolling mean and plot_stock_chart, applied to bounded series        *)
(***************************************************************************)
MaxLen == 3
MaxClose == 3
MaxSeed == 2

ShortSeries == UNION {[1..n -> 1..MaxClose] : n \in 1..MaxLen}

\* Long series, around the two windows and the 250 trading days of a year.
LongLengths == {MA50Window - 1, MA50Window, MA50Window + 1,
                MA200Window - 1, MA200Window, MA200Window + 1, 250}
GenClose(n, seed) == [i \in 1..n |-> 100 + ((i * i * seed + 3 * i) % 17)]
LongSeries == {GenClose(n, seed) : n \in LongLengths, seed \in 1..MaxSeed}

Windows == (1..MaxLen) \cup {MA50Window, MA200Window}

MaInit ==
    /\ data \in {Frame(close) : close \in ShortSeries \cup LongSeries}
    /\ fig = PyNone
    /\ window = 0
    /\ rolled = <<>>
    /\ FmtIdle
    /\ AppIdle

\* data['Close'].rolling(window=w).mean()
Rolling ==
    /\ window = 0
    /\ \E w \in Windows :
        /\ window' = w
        /\ rolled' = rolling_mean(data.cols["Close"], w)
    /\ UNCHANGED <<data, fig, fmtVars, appVars>>

PlotChart ==
    /\ fig = PyNone
    /\ \E r \in {plot_stock_chart(data, "AAPL")} :
           /\ fig' = r.fig
           /\ data' = r.data
    /\ UNCHANGED <<window, rolled, fmtVars, appVars>>

MaNext == Rolling \/ PlotChart

SpecMA == MaInit /\ [][MaNext]_vars

(***************************************************************************)
(* Exceptions.  What a library call raises is an instance of Exception;    *)
(* KeyboardInterrupt and SystemExit go to the main thread and to the       *)
(* interpreter, not to a call made on Streamlit's script thread.           *)
(***************************************************************************)
Mro ==
    [ConnectionError |-> {"ConnectionError", "OSError", "Exception", "BaseException"},
     ValueError |-> {"ValueError", "Exception", "BaseException"},
     KeyError |-> {"KeyError", "LookupError", "Exception", "BaseException"},
     TypeError |-> {"TypeError", "Exception", "BaseException"},
     AttributeError |-> {"AttributeError", "Exception", "BaseException"},
     OverflowError |-> {"OverflowError", "ArithmeticError", "Exception", "BaseException"}]

\* isinstance(e, cls), which is what "except cls" tests.
IsInstance(e, cls) == cls \in Mro[e]

(***************************************************************************)
(* get_stock_data                                                          *)
(***************************************************************************)
FetchResult(df, err) == [exc |-> "", msg |-> "", data |-> df, error |-> err]

NarrowExcept == "ValueError"

\* line 15: except Exception as e
FetchExcept == "Exception"

\* df.empty read as "the frame has no columns".
NoColumns(df) == DOMAIN df.cols = {}

\* line 12: data.empty
IsEmpty(df) == Empty(df)

\* get_stock_data(ticker, start_date, end_date), given what yf.download does
\* with the three arguments it is handed.
get_stock_data(ticker, outcome) ==
    IF outcome.exc # ""
    THEN IF IsInstance(outcome.exc, FetchExcept)
         THEN FetchResult(PyNone, PyStr("An error occurred: " \o outcome.msg))
         ELSE [exc |-> outcome.exc, msg |-> outcome.msg, data |-> PyNone, error |-> PyNone]
    ELSE IF IsEmpty(outcome.v)
         THEN FetchResult(PyNone,
                PyStr("No data found for ticker '" \o ticker
                        \o "'. It might be delisted or incorrect."))
         ELSE FetchResult(outcome.v, PyNone)

(***************************************************************************)
(* The company-information section                                         *)
(***************************************************************************)
Ev(op, arg) == [op |-> op, arg |-> arg]

\* bool(x) for None and for strings
Truthy(x) == x.kind = "str" /\ x.s # ""

\* str(x), as an f-string field without a format spec renders it
py_str(x) == IF x.kind = "None" THEN "None" ELSE x.s

PyDict(d) == [kind |-> "dict", d |-> d]

\* d.get(key, default)
dict_get(d, key, default) == IF key \in DOMAIN d THEN d[key] ELSE default

\* f"{x:.2f}"
FormatSpec2f(x) ==
    CASE x.kind = "None" ->
            Raise("TypeError", "unsupported format string passed to NoneType.__format__")
      [] x.kind = "str" ->
            Raise("ValueError", "Unknown format code 'f' for object of type 'str'")
      [] OTHER -> py_format_2f(x, FALSE)

\* x * 100
Times100(x) ==
    IF x.kind = "None"
    THEN Raise("TypeError", "unsupported operand type(s) for *: 'NoneType' and 'int'")
    ELSE Value(py_mul(x, 2))

\* st.metric(label=..., value=...): the value is computed first.
Metric(label, prefix, s, suffix) ==
    Only({ IF o.exc # "" THEN Raise(o.exc, o.msg)
           ELSE Value(Ev("st.metric", [label |-> label, value |-> prefix \o o.v \o suffix]))
         : o \in {s} })

Int0 == PyInt(FALSE, <<0>>)

\* lines 120-173: one outcome per element, in the order the script reaches
\* them: the element shown, or the exception raised in computing it.
InfoBlocks(info) ==
    IF info.kind # "dict"
    THEN <<Raise("AttributeError", "'NoneType' object has no attribute 'get'")>>
    ELSE LET d == info.d
             logo_url == dict_get(d, "logo_url", PyStr(""))
             pct == Times100(dict_get(d, "dividendYield", Int0))
             cap == format_large_number(dict_get(d, "marketCap", PyNone))
         IN  << Value(IF Truthy(logo_url) THEN Ev("st.image", logo_url.s)
                                          ELSE Ev("st.caption", "No Logo")),
                Value(Ev("st.subheader", py_str(dict_get(d, "longName", PyStr("N/A"))))),
                Value(Ev("st.markdown",
                    "**Sector:** " \o py_str(dict_get(d, "sector", PyStr("N/A"))))),
                Value(Ev("st.markdown",
                    "**Industry:** " \o py_str(dict_get(d, "industry", PyStr("N/A"))))),
                Value(Ev("st.markdown",
                    "**Website:** [" \o py_str(dict_get(d, "website", PyStr("N/A")))
                        \o "](" \o py_str(dict_get(d, "website", PyStr("#"))) \o ")")),
                Value(Ev("st.subheader", "Business Summary")),
                Value(Ev("st.write",
                    py_str(dict_get(d, "longBusinessSummary", PyStr("No summary available."))))),
                Value(Ev("st.subheader", "Key Financial Metrics")),
                Metric("Current Price", "$",
                       FormatSpec2f(dict_get(d, "currentPrice", Int0)), ""),
                Metric("Market Cap", "", cap, ""),
                Metric("Trailing P/E", "",
                       FormatSpec2f(dict_get(d, "trailingPE", Int0)), ""),
                Metric("Dividend Yield", "",
                       Only({ IF p.exc # "" THEN p ELSE FormatSpec2f(p.v) : p \in {pct} }),
                       "%"),
                Metric("52-Week High", "$",
                       FormatSpec2f(dict_get(d, "fiftyTwoWeekHigh", Int0)), ""),
                Metric("52-Week Low", "$",
                       FormatSpec2f(dict_get(d, "fiftyTwoWeekLow", Int0)), "") >>

\* The try block of lines 115-173, given what yf.Ticker(...).info did: the
\* elements shown before the first exception, and that exception.
info_section(outcome) ==
    IF outcome.exc # ""
    THEN [rendered |-> <<>>, exc |-> outcome.exc, msg |-> outcome.msg]
    ELSE Only({
            Only({
                IF raising = {}
                THEN [rendered |-> [i \in 1..Len(blocks) |-> blocks[i].v],
                      exc |-> "", msg |-> ""]
                ELSE Only({ [rendered |-> [i \in 1..(k - 1) |-> blocks[i].v],
                             exc |-> blocks[k].exc, msg |-> blocks[k].msg]
                          : k \in {i \in raising : \A j \in raising : i <= j} })
              : raising \in {{i \in 1..Len(blocks) : blocks[i].exc # ""}} })
          : blocks \in {InfoBlocks(outcome.v)} })

\* df.tail(n)
tail(df, n) ==
    DataFrame([c \in DOMAIN df.cols |->
        LET col == df.cols[c]
        IN  SubSeq(col, IF Len(col) > n THEN Len(col) - n + 1 ELSE 1, Len(col))])

(***************************************************************************)
(* What the user and the provider can do                                   *)
(***************************************************************************)
Texts == {"", "aapl", "AAPL", "msft"}

\* str.upper()
upper(t) ==
    CASE t = "aapl" -> "AAPL"
      [] t = "msft" -> "MSFT"
      [] OTHER -> t

RowCounts == {3, 12}

DownloadOutcomes ==
    {Raise("ConnectionError", "Max retries exceeded"), Raise("KeyError", "'Close'"),
     Raise("ValueError", ""),
     Value(DataFrame(<<>>)), Value(Frame(<<>>))}
        \cup {Value(Frame(GenClose(n, 1))) : n \in RowCounts}

Fields == {"logo_url", "longName", "sector", "industry", "website",
           "longBusinessSummary", "currentPrice", "marketCap", "trailingPE",
           "dividendYield", "fiftyTwoWeekHigh", "fiftyTwoWeekLow"}

Typical ==
    [logo_url |-> PyStr("https://logo.example/aapl.png"),
     longName |-> PyStr("Apple Inc."),
     sector |-> PyStr("Technology"),
     industry |-> PyStr("Consumer Electronics"),
     website |-> PyStr("https://www.apple.com"),
     longBusinessSummary |-> PyStr("Apple Inc. designs smartphones."),
     currentPrice |-> PyFloat(FALSE, Digits(189), <<8, 4>>),
     marketCap |-> PyInt(FALSE, Wide(2950000, 0)),
     trailingPE |-> PyFloat(FALSE, Digits(29), <<1, 2, 5>>),
     dividendYield |-> PyFloat(FALSE, <<0>>, <<0, 0, 5>>),
     fiftyTwoWeekHigh |-> PyFloat(FALSE, Digits(199), <<6, 2>>),
     fiftyTwoWeekLow |-> PyFloat(FALSE, Digits(124), <<1, 7>>)]

\* Profiles with any subset of the fields absent, and profiles with one
\* field present and null, the others all there or all absent.
SparseProfiles == {[f \in S |-> Typical[f]] : S \in SUBSET Fields}
NullProfiles ==
    {(f :> PyNone) @@ base : f \in Fields, base \in {Typical, <<>>}}

InfoOutcomes ==
    {Raise("ConnectionError", "Max retries exceeded"), Raise("KeyError", "'quoteSummary'"),
     Value(PyNone)}
        \cup {Value(PyDict(d)) : d \in SparseProfiles \cup NullProfiles}

(***************************************************************************)
(* The script: one run per user interaction                                *)
(***************************************************************************)
Prelude ==
    << Ev("st.set_page_config", "Stock Analyzer"),
       Ev("st.title", "Stock Data Analyzer"),
       Ev("st.sidebar.header", "User Input"),
       Ev("st.sidebar.text_input", "Enter Stock Ticker"),
       Ev("st.date_input", "Start Date"),
       Ev("st.date_input", "End Date"),
       Ev("st.sidebar.button", "Analyze Stock") >>

\* The same with the test of line 97 left out.
ScriptBranchNoTickerTest(click, ticker) == IF click THEN "fetch" ELSE "info"

\* lines 96, 97, 184 and 187: which branch of the script a run takes.
ScriptBranch(click, ticker) ==
    IF click THEN IF ticker # "" THEN "fetch" ELSE "warning" ELSE "info"

Init ==
    /\ AppIdle
    /\ MaIdle
    /\ FmtIdle

\* lines 81-97 and 184-188: the widgets, then the two tests that guard the
\* fetch.
Run ==
    /\ pc = "idle"
    /\ \E text \in Texts, click \in BOOLEAN :
        /\ ticker_symbol' = upper(text)
        /\ clicked' = click
        /\ CASE ScriptBranch(click, upper(text)) = "fetch" ->
                    /\ log' = Prelude
                    /\ pc' = "fetch"
             [] ScriptBranch(click, upper(text)) = "warning" ->
                    /\ log' = Prelude \o <<Ev("st.warning", "Please enter a stock ticker.")>>
                    /\ pc' = "done"
             [] OTHER ->
                    /\ log' = Prelude \o
                        <<Ev("st.info",
                             "Enter a stock ticker in the sidebar and click \"Analyze Stock\".")>>
                    /\ pc' = "done"
    /\ UNCHANGED <<download, error, stock_info, caught, data, fig, window, rolled, fmtVars>>

\* line 99: data, error = get_stock_data(ticker_symbol, start_date, end_date)
Fetch ==
    /\ pc = "fetch"
    /\ \E o \in DownloadOutcomes :
        \E r \in {get_stock_data(ticker_symbol, o)} :
            /\ download' = o
            /\ log' = Append(log, Ev("yf.download", ticker_symbol))
            /\ IF r.exc # ""
               THEN /\ pc' = "crashed"
                    /\ UNCHANGED <<data, error>>
               ELSE /\ pc' = "fetched"
                    /\ data' = r.data
                    /\ error' = r.error
    /\ UNCHANGED <<clicked, ticker_symbol, stock_info, caught, fig, window, rolled, fmtVars>>

\* lines 101-102
ShowError ==
    /\ pc = "fetched"
    /\ Truthy(error)
    /\ log' = Append(log, Ev("st.error", error.s))
    /\ pc' = "done"
    /\ UNCHANGED <<clicked, ticker_symbol, download, error, stock_info, caught,
                   data, fig, window, rolled, fmtVars>>

\* lines 103-109
ShowChart ==
    /\ pc = "fetched"
    /\ ~Truthy(error)
    /\ \E r \in {plot_stock_chart(data, ticker_symbol)} :
           /\ fig' = r.fig
           /\ data' = r.data
           /\ log' = log \o << Ev("st.success", "Displaying data for " \o ticker_symbol),
                               Ev("st.header", "Interactive Stock Chart"),
                               Ev("plot_stock_chart", ticker_symbol),
                               Ev("st.plotly_chart", r.fig) >>
    /\ pc' = "info"
    /\ UNCHANGED <<clicked, ticker_symbol, download, error, stock_info, caught,
                   window, rolled, fmtVars>>

NarrowInfoExcept == "KeyError"

\* line 175: except Exception as e
InfoExcept == "Exception"

\* lines 114-173: the header, the profile query and the panel, up to the
\* first exception.
CompanyInfo ==
    /\ pc = "info"
    /\ \E o \in InfoOutcomes :
        \E r \in {info_section(o)} :
            /\ stock_info' = o
            /\ log' = log \o << Ev("st.header", ticker_symbol \o " Company Information"),
                                Ev("yf.Ticker.info", ticker_symbol) >> \o r.rendered
            /\ IF r.exc = ""
               THEN /\ pc' = "raw"
                    /\ UNCHANGED caught
               ELSE IF IsInstance(r.exc, InfoExcept)
               THEN /\ pc' = "except"
                    /\ caught' = [exc |-> r.exc, msg |-> r.msg]
               ELSE /\ pc' = "crashed"
                    /\ UNCHANGED caught
    /\ UNCHANGED <<clicked, ticker_symbol, download, error, data, fig, window, rolled, fmtVars>>

\* lines 175-177
ExceptInfo ==
    /\ pc = "except"
    /\ log' = log \o
        << Ev("st.error", "Could not fetch stock info: " \o caught.msg),
           Ev("st.warning",
              "Note: The yfinance .info object can be unreliable. Some data may be missing.") >>
    /\ pc' = "raw"
    /\ UNCHANGED <<clicked, ticker_symbol, download, error, stock_info, caught,
                   data, fig, window, rolled, fmtVars>>

\* lines 182-183
RawData ==
    /\ pc = "raw"
    /\ log' = log \o << Ev("st.header", "Raw Stock Data (Last 10 Days)"),
                        Ev("st.dataframe", tail(data, 10)) >>
    /\ pc' = "done"
    /\ UNCHANGED <<clicked, ticker_symbol, download, error, stock_info, caught,
                   data, fig, window, rolled, fmtVars>>

\* The next interaction: Streamlit runs the script again from the top, with
\* nothing kept from the run before.
Rerun ==
    /\ pc \in {"done", "crashed"}
    /\ pc' = "idle"
    /\ clicked' = FALSE
    /\ ticker_symbol' = ""
    /\ download' = PyNone
    /\ error' = PyNone
    /\ stock_info' = PyNone
    /\ caught' = PyNone
    /\ log' = <<>>
    /\ data' = PyNone
    /\ fig' = PyNone
    /\ UNCHANGED <<window, rolled, fmtVars>>

Next ==
    \/ Run
    \/ Fetch
    \/ ShowError
    \/ ShowChart
    \/ CompanyInfo
    \/ ExceptInfo
    \/ RawData
    \/ Rerun

Spec == Init /\ [][Next]_vars

(***************************************************************************)
(* The claims                                                              *)
(***************************************************************************)
HasOp(op) == \E i \in 1..Len(log) : log[i].op = op
Count(op) == Cardinality({i \in 1..Len(log) : log[i].op = op})
Before(op1, op2) ==
    \E i \in 1..Len(log) : \E j \in (i + 1)..Len(log) :
        log[i].op = op1 /\ log[j].op = op2

\* The sum of close[lo..hi], one term after the other.
WindowSum(close, lo, hi) == SumRange(close, lo, hi)

\* A column is the trailing mean of close over w: as long as close,
\* undefined before position w, and from w on the mean of the w closes that
\* end there; n - w + 1 defined values when w <= n.
IsTrailingMean(close, column, w) ==
    /\ Len(column) = Len(close)
    /\ \A i \in 1..Len(column) :
        IF i < w THEN column[i].nan
        ELSE /\ ~column[i].nan
             /\ column[i].sum * w = column[i].nobs * WindowSum(close, i - w + 1, i)
    /\ w <= Len(close) =>
        Cardinality({i \in 1..Len(column) : ~column[i].nan}) = Len(close) - w + 1

\* C1: for every close series of length n >= 1 and every window 1 <= W <= n,
\* the moving-average column has exactly n - W + 1 defined values, positions
\* 1..W-1 undefined, and each defined value is the mean of the W closes
\* ending at its position; so for the MA50 and MA200 columns of
\* plot_stock_chart.
C1_MovingAverage ==
    /\ window # 0 => IsTrailingMean(data.cols["Close"], rolled, window)
    /\ fig # PyNone =>
        /\ IsTrailingMean(data.cols["Close"], data.cols["MA50"], MA50Window)
        /\ IsTrailingMean(data.cols["Close"], data.cols["MA200"], MA200Window)

C1_Witness ==
    /\ fig # PyNone
    /\ Rows(data) > MA200Window
    /\ ~data.cols["MA200"][MA200Window].nan
    /\ data.cols["MA200"][MA200Window - 1].nan

\* x > 10^k, read off the digits: more than k + 1 integer digits, or k + 1
\* of them with something beyond the leading 1 and its zeros.
Exceeds(x, k) ==
    CASE x.special = "nan" -> FALSE
      [] x.special = "inf" -> ~x.neg
      [] OTHER ->
            /\ ~x.neg
            /\ \/ Len(x.ip) > k + 1
               \/ /\ Len(x.ip) = k + 1
                  /\ \/ x.ip[1] > 1
                     \/ \E i \in 2..(k + 1) : x.ip[i] # 0
                     \/ \E i \in 1..Len(x.fp) : x.fp[i] # 0

Called == ret.line # 0
OneBillion == PyInt(FALSE, Wide(1000, 0))
OneTrillion == PyInt(FALSE, Wide(1000000, 0))

\* C2: for a numeric value the tier is the first of > 10^12 (T), > 10^9 (B),
\* > 10^6 (M) that holds, else the plain form; a value equal to a threshold
\* falls to the next lower tier, and exactly 1,000,000,000 is formatted in
\* the million tier.
C2_TierByStrictComparison ==
    (Called /\ IsIntOrFloat(num)) =>
        /\ ret.line = (CASE Exceeds(num, 12) -> 72
                         [] Exceeds(num, 9) -> 74
                         [] Exceeds(num, 6) -> 76
                         [] OTHER -> 77)
        /\ num = OneBillion => ret.v = "$1000.00 M"
        /\ num = OneTrillion => ret.v = "$1000.00 B"
        /\ num = PyInt(FALSE, Wide(1, 0)) => ret.v = "$1,000,000.00"

C2_Witness == Called /\ num = OneTrillion /\ ret.line = 74

\* C3 as stated: "$1.50 T" for 1_500_000_000_000, "$999.00" for 999 and
\* "$1.00 B" for 1_000_000_000.
C3_AsStated ==
    Called =>
        /\ num = PyInt(FALSE, Wide(1500000, 0)) => ret.v = "$1.50 T"
        /\ num = PyInt(FALSE, Digits(999)) => ret.v = "$999.00"
        /\ num = OneBillion => ret.v = "$1.00 B"

\* C3, amended: "$1.50 T" for 1_500_000_000_000, "$999.00" for 999 and
\* "$1000.00 M" for 1_000_000_000.
C3_Examples ==
    Called =>
        /\ num = PyInt(FALSE, Wide(1500000, 0)) => ret.v = "$1.50 T"
        /\ num = PyInt(FALSE, Digits(999)) => ret.v = "$999.00"
        /\ num = OneBillion => ret.v = "$1000.00 M"

C3_Witness == Called /\ num = OneBillion /\ ret.exc = "" /\ ret.line = 76

\* C4: None and every input that is not a number give "N/A", and for every
\* input of any kind the call returns a string and does not raise.
C4_NeverRaises ==
    Called =>
        /\ ~IsIntOrFloat(num) => ret.v = "N/A"
        /\ ret.exc = ""

\* C4 without the ints no float can hold: there the call returns a string.
C4_ReturnsWhenFloatFits ==
    (Called /\ (IsIntOrFloat(num) => ~FloatOverflows(num.ip))) =>
        /\ ~IsIntOrFloat(num) => ret.v = "N/A"
        /\ ret.exc = ""

Fetched == download # PyNone

\* C5: when the historical query returns zero rows, get_stock_data gives no
\* series and the message that carries the requested ticker; a series it
\* returns has at least one record.
C5_EmptyResult ==
    /\ (Fetched /\ download.exc = "" /\ Rows(download.v) = 0) =>
        /\ pc # "crashed"
        /\ data = PyNone
        /\ error = PyStr("No data found for ticker '" \o ticker_symbol
                            \o "'. It might be delisted or incorrect.")
    /\ data # PyNone => Rows(data) >= 1

C5_Witness ==
    /\ Fetched
    /\ download.exc = ""
    /\ DOMAIN download.v.cols = OHLCV
    /\ Rows(download.v) = 0
    /\ pc = "done"

\* C6: when the historical query raises, get_stock_data gives no series and
\* a message with the exception's own message in it, and nothing escapes.
C6_ProviderError ==
    (Fetched /\ download.exc # "") =>
        /\ pc # "crashed"
        /\ data = PyNone
        /\ error = PyStr("An error occurred: " \o download.msg)

C6_Witness ==
    /\ Fetched
    /\ download.exc = "ConnectionError"
    /\ error = PyStr("An error occurred: Max retries exceeded")
    /\ pc = "done"

PanelOps == {"st.image", "st.caption", "st.subheader", "st.markdown", "st.write",
             "st.metric"}
ProfileFailed == stock_info # PyNone /\ info_section(stock_info).exc # ""

\* C7: in a run with the button pressed and a ticker: if the fetch fails,
\* the error message is all that is shown, no chart, panel or table; if the
\* fetch succeeds and the profile step fails, the chart is already there,
\* the panel shows an error and a warning, and the table of the last ten
\* rows follows.
C7_DegradedPaths ==
    /\ (Fetched /\ data = PyNone) =>
        /\ \A i \in 1..Len(log) :
            log[i].op \notin PanelOps \cup {"plot_stock_chart", "st.plotly_chart",
                                           "yf.Ticker.info", "st.dataframe", "st.header",
                                           "st.success"}
        /\ pc = "done" =>
            log = Prelude \o <<Ev("yf.download", ticker_symbol), Ev("st.error", error.s)>>
    /\ ProfileFailed =>
        /\ pc \in {"except", "raw", "done"}
        /\ Before("st.plotly_chart", "yf.Ticker.info")
        /\ pc \in {"raw", "done"} =>
            /\ Before("yf.Ticker.info", "st.error")
            /\ Before("st.error", "st.warning")
        /\ pc = "done" =>
            /\ Before("st.warning", "st.dataframe")
            /\ log[Len(log)].op = "st.dataframe"
            /\ Rows(log[Len(log)].arg) = (IF Rows(data) > 10 THEN 10 ELSE Rows(data))

C7_Witness ==
    /\ pc = "done"
    /\ stock_info # PyNone
    /\ stock_info.exc = "ConnectionError"
    /\ HasOp("st.dataframe")

\* C8: plot_stock_chart leaves the caller's series as it was, the same
\* columns and values, so the table shows the fetched columns only.
C8_InputUnchanged ==
    /\ fig # PyNone => data = download.v
    /\ \A i \in 1..Len(log) :
        log[i].op = "st.dataframe" => DOMAIN log[i].arg.cols = OHLCV

\* C9: a run calls the fetch at most once, and only with the button pressed
\* and a ticker; without a ticker it shows the warning and nothing else,
\* without the button the prompt and nothing else; the fetch has returned
\* before the indicators, the chart, the profile query and the table start.
C9_SingleFetchFirst ==
    /\ Count("yf.download") <= 1
    /\ HasOp("yf.download") <=> Fetched
    /\ HasOp("yf.download") => (clicked /\ ticker_symbol # "")
    /\ (pc = "done" /\ clicked /\ ticker_symbol = "") =>
        log = Prelude \o <<Ev("st.warning", "Please enter a stock ticker.")>>
    /\ (pc = "done" /\ ~clicked) =>
        log = Prelude \o
            <<Ev("st.info", "Enter a stock ticker in the sidebar and click \"Analyze Stock\".")>>
    /\ \A i \in 1..Len(log) :
        log[i].op \in {"plot_stock_chart", "st.plotly_chart", "yf.Ticker.info",
                       "st.dataframe"} \cup PanelOps =>
            /\ Fetched
            /\ \E j \in 1..(i - 1) : log[j].op = "yf.download"

C9_Witness ==
    /\ pc = "done"
    /\ Count("yf.download") = 1
    /\ Before("yf.download", "plot_stock_chart")
    /\ Before("yf.Ticker.info", "st.dataframe")

IsProfile == stock_info # PyNone /\ stock_info.exc = "" /\ stock_info.v.kind = "dict"
PanelElements == Cardinality({i \in 1..Len(log) : log[i].op \in PanelOps})

\* C10: for every profile the query returns, whichever fields are absent or
\* present with a null value, the panel shows all its blocks (header,
\* summary, six metrics) from the per-field defaults, and no profile error
\* or warning.
C10_AllBlocksRendered ==
    IsProfile =>
        /\ pc \in {"raw", "done"}
        /\ caught = PyNone
        /\ PanelElements = 14
        /\ Count("st.metric") = 6
        /\ ~HasOp("st.error") /\ ~HasOp("st.warning")

\* C10 for the profiles whose fields are absent or present with a value.
C10_AbsentFields ==
    (IsProfile /\ \A f \in DOMAIN stock_info.v.d : stock_info.v.d[f] # PyNone) =>
        /\ pc \in {"raw", "done"}
        /\ caught = PyNone
        /\ PanelElements = 14
        /\ Count("st.metric") = 6
        /\ ~HasOp("st.error") /\ ~HasOp("st.warning")

\* C10 also for a null in a field that is not formatted with :.2f or
\* multiplied: the text fields and marketCap.
Formatted2f == {"currentPrice", "trailingPE", "dividendYield", "fiftyTwoWeekHigh",
                "fiftyTwoWeekLow"}

C10_NullTextFields ==
    (IsProfile /\ \A f \in DOMAIN stock_info.v.d \cap Formatted2f : stock_info.v.d[f] # PyNone) =>
        /\ pc \in {"raw", "done"}
        /\ caught = PyNone
        /\ PanelElements = 14
        /\ ~HasOp("st.error") /\ ~HasOp("st.warning")

====
